---- MODULE Spec2Model ----
(***************************************************************************)
(* A model of bokeh/core/state.py: the State object that holds the         *)
(* implicit output configuration of the plotting API (the current          *)
(* Document, the file-output dict, the notebook flag, the server flag and  *)
(* the session coordinates), and the methods that change it.               *)
(*                                                                         *)
(* Python values are represented as follows: strings are strings, the      *)
(* value None in a string-typed slot is the string None, the value None    *)
(* held by the dict-typed slot _file is NoneDict, a dict is a function     *)
(* from its keys, and an object whose identity matters (a Document) is a   *)
(* natural number, the order of its allocation.                            *)
(***************************************************************************)
EXTENDS FiniteSets, Integers, Sequences, TLC

VARIABLES
    document,        \* self._document: the identity of the current Document
    file,            \* self._file: NoneDict or the file-output dict
    notebook,        \* self._notebook
    session_coords,  \* self._session_coords
    server_enabled,  \* self._server_enabled
    docs,            \* the Document instances constructed so far
    lastOp,          \* history: the name of the last call made on the State
    lastArgs,        \* history: the arguments of that call, as the caller gave them
    before,          \* history: the fields (and docs) just before that call
    serverCall       \* history: the arguments of the most recent
                     \* output_server call since the last reset, or NoCall

vars == <<document, file, notebook, session_coords, server_enabled, docs,
          lastOp, lastArgs, before, serverCall>>

-----------------------------------------------------------------------------
(* Bounds and input sets *)

\* The number of Document instances a run may construct.
MaxDocs == 3

None == "None"
NoneDict == [k \in {} |-> None]
\* Marks an optional argument the caller did not pass.
Omitted == "<omitted>"
NoCall == [k \in {} |-> None]

Filenames == {"a.html", "b.html"}
Titles == {"My Plot"}
Modes == {"inline"}
RootDirs == {"/static"}
SessionIds == {"x"}
Urls == {"http://host:5006/"}
AppPaths == {"/app"}

-----------------------------------------------------------------------------
(* Collaborators and defaults *)

\* bokeh.client.DEFAULT_SESSION_ID, a string this module only passes on.
DEFAULT_SESSION_ID == "DEFAULT_SESSION_ID"
DefaultTitle == "Bokeh Plot"
DefaultMode == "cdn"
DefaultRootDir == None
DefaultUrl == "default"
DefaultAppPath == "/"

\* The value a parameter takes: the argument, or its default when omitted.
Arg(given, default) == IF given = Omitted THEN default ELSE given

\* Document(): a new Document, distinct from every one constructed before.
Document == Cardinality(docs)

\* Resources(mode=mode, root_dir=root_dir)
Resources(mode, root_dir) == [mode |-> mode, root_dir |-> root_dir]

\* _SessionCoordinates(kwargs): the coordinates built from the record kwargs.
_SessionCoordinates(kwargs) == kwargs

\* A coordinate of a _SessionCoordinates, None when the record had no such key.
Coord(coords, key) == IF key \in DOMAIN coords THEN coords[key] ELSE None

-----------------------------------------------------------------------------
(* The accessors (properties) of State *)

document_get == document
file_get == file
notebook_get == notebook
server_enabled_get == server_enabled
session_id == Coord(session_coords, "session_id")
session_id_allowing_none == Coord(session_coords, "session_id")
url == Coord(session_coords, "url")
app_path == Coord(session_coords, "app_path")
server_url == <<Coord(session_coords, "url"), Coord(session_coords, "app_path")>>

-----------------------------------------------------------------------------
(* The methods of State, as relations between the fields before and after *)

\* A setter that resets the output modes as _reset_with_doc does.
document_set_resetting(doc) ==
    /\ document' = doc
    /\ file' = NoneDict
    /\ UNCHANGED <<notebook, session_coords, server_enabled>>

\* document.setter
document_set(doc) ==
    /\ document' = doc
    /\ UNCHANGED <<file, notebook, session_coords, server_enabled>>

\* The reset without its last assignment.
_reset_keeping_doc_fields_server_left ==
    /\ file' = NoneDict
    /\ notebook' = FALSE
    /\ session_coords' = _SessionCoordinates([k \in {} |-> None])
    /\ UNCHANGED server_enabled

\* The reset without the assignment of _session_coords.
_reset_keeping_doc_fields_coords_left ==
    /\ file' = NoneDict
    /\ notebook' = FALSE
    /\ UNCHANGED session_coords
    /\ server_enabled' = FALSE

_reset_keeping_doc_fields ==
    /\ file' = NoneDict
    /\ notebook' = FALSE
    /\ session_coords' = _SessionCoordinates([k \in {} |-> None])
    /\ server_enabled' = FALSE

\* A reset of the modes that replaces the Document as well.
_reset_keeping_doc_replacing ==
    /\ _reset_keeping_doc_fields
    /\ document' = Document

_reset_keeping_doc ==
    /\ _reset_keeping_doc_fields
    /\ UNCHANGED document

_reset_with_doc(doc) ==
    /\ document' = doc
    /\ _reset_keeping_doc_fields

\* A reset that hands the current Document back instead of a new one.
reset_reusing_doc == _reset_with_doc(document)

reset == _reset_with_doc(Document)

\* An output_file that updates an existing dict, a default title or mode not
\* replacing what the dict holds.
output_file_merging(filename, title, mode, root_dir) ==
    /\ file' = IF file = NoneDict
                THEN [filename  |-> filename,
                      resources |-> Resources(mode, root_dir),
                      title     |-> title]
                ELSE [filename  |-> filename,
                      resources |-> IF mode = DefaultMode
                                    THEN file.resources
                                    ELSE Resources(mode, root_dir),
                      title     |-> IF title = DefaultTitle
                                    THEN file.title
                                    ELSE title]
    /\ UNCHANGED <<document, notebook, session_coords, server_enabled>>

\* An output_file that makes the file mode the only active one.
output_file_exclusive(filename, title, mode, root_dir) ==
    /\ file' = [filename  |-> filename,
                resources |-> Resources(mode, root_dir),
                title     |-> title]
    /\ notebook' = FALSE
    /\ UNCHANGED <<document, session_coords, server_enabled>>

output_file(filename, title, mode, root_dir) ==
    /\ file' = [filename  |-> filename,
                resources |-> Resources(mode, root_dir),
                title     |-> title]
    /\ UNCHANGED <<document, notebook, session_coords, server_enabled>>

\* An output_notebook that toggles the flag.
output_notebook_toggling ==
    /\ notebook' = ~notebook
    /\ UNCHANGED <<document, file, session_coords, server_enabled>>

output_notebook ==
    /\ notebook' = TRUE
    /\ UNCHANGED <<document, file, session_coords, server_enabled>>

\* An output_server that keeps the coordinates of an earlier call.
output_server_keeping_first(sid, u, path) ==
    /\ session_coords' = IF server_enabled
                          THEN session_coords
                          ELSE _SessionCoordinates([session_id |-> sid,
                                                    url        |-> u,
                                                    app_path   |-> path])
    /\ server_enabled' = TRUE
    /\ UNCHANGED <<document, file, notebook>>

\* An output_server that makes the server mode the only active one.
output_server_exclusive(sid, u, path) ==
    /\ session_coords' = _SessionCoordinates([session_id |-> sid,
                                              url        |-> u,
                                              app_path   |-> path])
    /\ server_enabled' = TRUE
    /\ file' = NoneDict
    /\ UNCHANGED <<document, notebook>>

output_server(sid, u, path) ==
    /\ session_coords' = _SessionCoordinates([session_id |-> sid,
                                              url        |-> u,
                                              app_path   |-> path])
    /\ server_enabled' = TRUE
    /\ UNCHANGED <<document, file, notebook>>

-----------------------------------------------------------------------------
(* History *)

Snapshot == [document       |-> document,
             file           |-> file,
             notebook       |-> notebook,
             session_coords |-> session_coords,
             server_enabled |-> server_enabled,
             docs           |-> docs]

Record(op, args) ==
    /\ lastOp' = op
    /\ lastArgs' = args
    /\ before' = Snapshot

NoArgs == [k \in {} |-> None]

-----------------------------------------------------------------------------
(* State() : __init__ sets last_comms_handle and calls reset() *)

Init ==
    /\ document = 0
    /\ docs = {0}
    /\ file = NoneDict
    /\ notebook = FALSE
    /\ session_coords = _SessionCoordinates([k \in {} |-> None])
    /\ server_enabled = FALSE
    /\ lastOp = "__init__"
    /\ lastArgs = NoArgs
    /\ before = [document       |-> 0,
                 file           |-> NoneDict,
                 notebook       |-> FALSE,
                 session_coords |-> _SessionCoordinates([k \in {} |-> None]),
                 server_enabled |-> FALSE,
                 docs           |-> {}]
    /\ serverCall = NoCall

-----------------------------------------------------------------------------
(* The calls a client can make *)

\* The Documents a caller can pass: one constructed earlier, or a new one.
CallerDocs == docs \cup (IF Cardinality(docs) < MaxDocs THEN {Document} ELSE {})

CallReset ==
    /\ Cardinality(docs) < MaxDocs
    /\ reset
    /\ docs' = docs \cup {Document}
    /\ serverCall' = NoCall
    /\ Record("reset", NoArgs)

CallResetKeepingDoc ==
    /\ _reset_keeping_doc
    /\ serverCall' = NoCall
    /\ UNCHANGED docs
    /\ Record("_reset_keeping_doc", NoArgs)

CallResetWithDoc ==
    \E doc \in CallerDocs :
        /\ _reset_with_doc(doc)
        /\ docs' = docs \cup {doc}
        /\ serverCall' = NoCall
        /\ Record("_reset_with_doc", [doc |-> doc])

CallDocumentSet ==
    \E doc \in CallerDocs :
        /\ document_set(doc)
        /\ docs' = docs \cup {doc}
        /\ UNCHANGED serverCall
        /\ Record("document.setter", [doc |-> doc])

CallOutputFile ==
    \E filename \in Filenames,
       title \in Titles \cup {Omitted},
       mode \in Modes \cup {Omitted},
       root_dir \in RootDirs \cup {Omitted} :
        /\ output_file(filename, Arg(title, DefaultTitle),
                       Arg(mode, DefaultMode), Arg(root_dir, DefaultRootDir))
        /\ UNCHANGED <<docs, serverCall>>
        /\ Record("output_file", [filename |-> filename,
                                  title    |-> title,
                                  mode     |-> mode,
                                  root_dir |-> root_dir])

CallOutputNotebook ==
    /\ output_notebook
    /\ UNCHANGED <<docs, serverCall>>
    /\ Record("output_notebook", NoArgs)

CallOutputServer ==
    \E sid \in SessionIds \cup {Omitted},
       u \in Urls \cup {Omitted},
       path \in AppPaths \cup {Omitted} :
        /\ output_server(Arg(sid, DEFAULT_SESSION_ID), Arg(u, DefaultUrl),
                         Arg(path, DefaultAppPath))
        /\ serverCall' = [session_id |-> Arg(sid, DEFAULT_SESSION_ID),
                          url        |-> Arg(u, DefaultUrl),
                          app_path   |-> Arg(path, DefaultAppPath)]
        /\ UNCHANGED docs
        /\ Record("output_server", [session_id |-> sid,
                                    url        |-> u,
                                    app_path   |-> path])

Next ==
    \/ CallReset
    \/ CallResetKeepingDoc
    \/ CallResetWithDoc
    \/ CallDocumentSet
    \/ CallOutputFile
    \/ CallOutputNotebook
    \/ CallOutputServer

Spec == Init /\ [][Next]_vars

-----------------------------------------------------------------------------
(* Properties *)

EmptyCoords == DOMAIN session_coords = {}

ModesCleared ==
    /\ file = NoneDict
    /\ notebook = FALSE
    /\ server_enabled = FALSE
    /\ EmptyCoords

\* C1: right after reset() the file config is None, the notebook flag and
\* the server-enabled flag are false and the session coordinates are the
\* empty ones: no session id, url or app path of an earlier output_server
\* is left.
C1_ResetClearsModes ==
    lastOp = "reset" =>
        /\ ModesCleared
        /\ session_id = None
        /\ url = None
        /\ app_path = None

C1_Witness ==
    /\ lastOp = "reset"
    /\ before.file # NoneDict
    /\ before.notebook
    /\ before.server_enabled
    /\ DOMAIN before.session_coords # {}
    /\ ModesCleared

\* C2: the Document installed by reset() is none of the Documents that
\* existed before the call: not the one held before it, and not one an
\* earlier reset() or the construction installed.
C2_ResetInstallsNewDocument ==
    lastOp = "reset" =>
        /\ document # before.document
        /\ document \notin before.docs

C2_Witness ==
    /\ lastOp = "reset"
    /\ Cardinality(before.docs) >= 2
    /\ before.document # 0
    /\ document \notin before.docs

\* C3: right after output_file the file config holds exactly the filename,
\* title and resources mode of that call, an omitted title being "Bokeh Plot"
\* and an omitted mode "cdn", whatever config an earlier call left.
C3_OutputFileLastWriteWins ==
    lastOp = "output_file" =>
        /\ file # NoneDict
        /\ DOMAIN file = {"filename", "resources", "title"}
        /\ file.filename = lastArgs.filename
        /\ file.title = (IF lastArgs.title = Omitted
                         THEN "Bokeh Plot" ELSE lastArgs.title)
        /\ file.resources.mode = (IF lastArgs.mode = Omitted
                                  THEN "cdn" ELSE lastArgs.mode)
        /\ file.resources.root_dir = (IF lastArgs.root_dir = Omitted
                                      THEN None ELSE lastArgs.root_dir)

C3_Witness ==
    /\ lastOp = "output_file"
    /\ before.file # NoneDict
    /\ before.file.filename = "a.html"
    /\ before.file.title = "My Plot"
    /\ before.file.resources.mode = "inline"
    /\ lastArgs = [filename |-> "b.html", title |-> Omitted,
                   mode |-> Omitted, root_dir |-> Omitted]
    /\ file.filename = "b.html"
    /\ file.title = "Bokeh Plot"
    /\ file.resources.mode = "cdn"

\* C4: output_file leaves the notebook flag, the server-enabled flag, the
\* session coordinates and the Document as they were, so a notebook mode
\* active before the call is active together with the file mode after it.
C4_OutputFileFrame ==
    lastOp = "output_file" =>
        /\ notebook = before.notebook
        /\ server_enabled = before.server_enabled
        /\ session_coords = before.session_coords
        /\ document = before.document
        /\ (before.notebook => notebook /\ file # NoneDict)

C4_Witness ==
    /\ lastOp = "output_file"
    /\ before.notebook
    /\ before.file = NoneDict
    /\ before.server_enabled
    /\ notebook
    /\ file # NoneDict

\* C5: right after output_server(session_id, url, app_path) the
\* server-enabled flag is true and the accessors return the session id, url
\* and app path of that call, not those of an earlier call.
C5_OutputServerSetsCoords ==
    lastOp = "output_server" =>
        /\ server_enabled
        /\ session_id = (IF lastArgs.session_id = Omitted
                         THEN DEFAULT_SESSION_ID ELSE lastArgs.session_id)
        /\ url = (IF lastArgs.url = Omitted THEN "default" ELSE lastArgs.url)
        /\ app_path = (IF lastArgs.app_path = Omitted
                       THEN "/" ELSE lastArgs.app_path)
        /\ DOMAIN session_coords = {"session_id", "url", "app_path"}

C5_Witness ==
    /\ lastOp = "output_server"
    /\ before.server_enabled
    /\ before.session_coords.session_id # "x"
    /\ lastArgs.session_id = "x"
    /\ server_enabled
    /\ session_id = "x"

\* C6: output_notebook sets the notebook flag and leaves the file config,
\* the server-enabled flag, the session coordinates and the Document as they
\* were; when the flag was already set, nothing changes.
C6_OutputNotebookAdditive ==
    lastOp = "output_notebook" =>
        /\ notebook = TRUE
        /\ file = before.file
        /\ server_enabled = before.server_enabled
        /\ session_coords = before.session_coords
        /\ document = before.document
        /\ (before.notebook => notebook = before.notebook)

C6_Witness ==
    /\ lastOp = "output_notebook"
    /\ before.notebook
    /\ before.file # NoneDict
    /\ before.server_enabled
    /\ notebook

\* C7: output_server leaves the file config, the notebook flag and the
\* Document as they were, so a file or notebook mode active before the call
\* is still active after it.
C7_OutputServerFrame ==
    lastOp = "output_server" =>
        /\ file = before.file
        /\ notebook = before.notebook
        /\ document = before.document

C7_Witness ==
    /\ lastOp = "output_server"
    /\ before.file # NoneDict
    /\ before.notebook
    /\ ~before.server_enabled
    /\ file # NoneDict
    /\ notebook
    /\ server_enabled

\* The methods that change the output configuration: reset, with the two
\* variants it is built from, and the three output_ methods.
Mutators == {"reset", "_reset_keeping_doc", "_reset_with_doc",
             "output_file", "output_notebook", "output_server"}

AccessorValues ==
    <<document_get, file_get, notebook_get, server_enabled_get, session_id,
      session_id_allowing_none, url, server_url, app_path>>

AccessorValuesButDocument ==
    <<file_get, notebook_get, server_enabled_get, session_id,
      session_id_allowing_none, url, server_url, app_path>>

\* C8 as stated: the value of every accessor, document included, changes
\* only in a call of a mutator method; nothing assigns a field directly.
C8_AllAccessorsReadOnly ==
    [][AccessorValues' # AccessorValues => lastOp' \in Mutators]_vars

\* C8, amended: the value of every accessor but document changes only in a
\* call of a mutator method; document has a setter, which assigns the
\* Document it is given and changes no other accessor's value.
C8_AccessorsButDocumentReadOnly ==
    [][/\ AccessorValuesButDocument' # AccessorValuesButDocument
            => lastOp' \in Mutators
       /\ lastOp' = "document.setter" => document_get' = lastArgs'.doc]_vars

C8_Witness ==
    /\ lastOp = "document.setter"
    /\ document # before.document
    /\ file # NoneDict
    /\ notebook
    /\ server_enabled
    /\ file = before.file

C10_ServerFlagFollowsCoords ==
    /\ server_enabled <=> serverCall # NoCall
    /\ server_enabled =>
           /\ session_id = serverCall.session_id
           /\ url = serverCall.url
           /\ app_path = serverCall.app_path
    /\ ~server_enabled => EmptyCoords

C10_Witness ==
    /\ lastOp = "_reset_keeping_doc"
    /\ before.server_enabled
    /\ DOMAIN before.session_coords # {}
    /\ ~server_enabled
    /\ EmptyCoords
====
